---- MODULE Spec2Model ----
(***************************************************************************)
(* files_renamer: the plan builder (src/src/renamer.py buil_rename_plan),  *)
(* the two-phase executors (rename_run, reverse_rename_run), the backup    *)
(* record (src/src/utils.py) and the command line flow (src/cli.py).       *)
(*                                                                         *)
(* A file name is a sequence of one-character strings.  All paths of a run *)
(* lie in the one folder given on the command line, so a path is modelled  *)
(* by its name; the empty name stands for the folder itself (src / "").    *)
(***************************************************************************)
EXTENDS Integers, Sequences, FiniteSets, TLC

VARIABLES
    os_name,        \* os.name: "posix" or "nt"
    files,          \* regular files of the folder: name -> file identity
    subdirs,        \* names of the sub-directories of the folder
    backup_folder,  \* does the backup folder exist on disk
    backup_json,    \* rename_plan_backup.json: present, parsable, its <<old, new>> pairs
    pc,             \* position of the running invocation
    mode,           \* what is running: "none", "run", "reverse"
    caller,         \* who called the executor: "cli" or "api"
    plan,           \* the dict iterated by the stage loop, as a sequence of pairs
    temp_map,       \* temp_map of the executor, as a sequence of pairs
    idx,            \* position in the loop under way
    outcome,        \* how the last invocation ended
    args,           \* the options of the last command line invocation
    pre,            \* the disk when the last invocation started
    hist,           \* the invocation before the last: kind, success, disk before it
    runs,           \* number of invocations so far
    built           \* the last direct call of buil_rename_plan and its result

vars == <<os_name, files, subdirs, backup_folder, backup_json, pc, mode, caller,
          plan, temp_map, idx, outcome, args, pre, hist, runs, built>>

-----------------------------------------------------------------------------
(* Bounds of the model.                                                    *)

MaxFiles == 2        \* files of a folder the command line runs on
MaxPlanFiles == 3    \* files of a folder the plan builder is called on
MaxApiPlan == 2      \* entries of a plan handed to the executors directly
MaxRuns == 3         \* invocations of the command line in one behaviour

-----------------------------------------------------------------------------
(* Characters and strings.                                                 *)

\* The characters of the model in code point order.
Alphabet ==
    << " ", "-", ".", "/",
       "0", "1", "2", "3", "4", "5", "6", "7", "8", "9",
       "A", "B", "C", "D", "E", "F", "G", "H", "I", "J", "K", "L", "M",
       "N", "O", "P", "Q", "R", "S", "T", "U", "V", "W", "X", "Y", "Z",
       "_",
       "a", "b", "c", "d", "e", "f", "g", "h", "i", "j", "k", "l", "m",
       "n", "o", "p", "q", "r", "s", "t", "u", "v", "w", "x", "y", "z" >>

Chars == {Alphabet[k] : k \in 1..Len(Alphabet)}
OrdOf == [c \in Chars |-> CHOOSE k \in 1..Len(Alphabet) : Alphabet[k] = c]
Ord(c) == OrdOf[c]

IsDigit(c) == c \in {"0", "1", "2", "3", "4", "5", "6", "7", "8", "9"}
IsUpper(c) == Ord(c) >= Ord("A") /\ Ord(c) <= Ord("Z")
IsLower(c) == Ord(c) >= Ord("a") /\ Ord(c) <= Ord("z")
IsCased(c) == IsUpper(c) \/ IsLower(c)

UpperOf ==
    [c \in Chars |-> IF IsLower(c) THEN Alphabet[Ord(c) - (Ord("a") - Ord("A"))] ELSE c]
LowerOf ==
    [c \in Chars |-> IF IsUpper(c) THEN Alphabet[Ord(c) + (Ord("a") - Ord("A"))] ELSE c]
UpperChar(c) == UpperOf[c]
LowerChar(c) == LowerOf[c]

\* str.upper, str.lower
str_upper(s) == [k \in 1..Len(s) |-> UpperChar(s[k])]
str_lower(s) == [k \in 1..Len(s) |-> LowerChar(s[k])]

\* str.title: a cased character is upper-cased when the character before it is
\* not cased (or there is none) and lower-cased otherwise.
str_title(s) ==
    [k \in 1..Len(s) |->
        IF k > 1 /\ IsCased(s[k - 1]) THEN LowerChar(s[k]) ELSE UpperChar(s[k])]

\* Comparison of two strings as Python compares str: code point by code point,
\* a proper prefix first.
StrLess(a, b) ==
    \E k \in 1..(Len(b)) :
        /\ \A j \in 1..(k - 1) : j <= Len(a) /\ a[j] = b[j]
        /\ k - 1 <= Len(a)
        /\ \/ k = Len(a) + 1
           \/ k <= Len(a) /\ Ord(a[k]) < Ord(b[k])

\* str(n) for an integer n
RECURSIVE NatStr(_)
NatStr(n) ==
    IF n < 10 THEN << Alphabet[Ord("0") + n] >>
    ELSE NatStr(n \div 10) \o << Alphabet[Ord("0") + (n % 10)] >>

int_str(n) == IF n < 0 THEN << "-" >> \o NatStr(0 - n) ELSE NatStr(n)

\* int(s) for a string of decimal digits
RECURSIVE DigitsValue(_)
DigitsValue(s) ==
    IF s = << >> THEN 0
    ELSE 10 * DigitsValue(SubSeq(s, 1, Len(s) - 1)) + (Ord(s[Len(s)]) - Ord("0"))

Zeros(n) == [k \in 1..n |-> "0"]

\* Faulty variant of zfill: a string longer than the width is cut to it.
zfill_cutting(s, width) ==
    IF width <= 0 THEN s
    ELSE IF width <= Len(s) THEN SubSeq(s, Len(s) - width + 1, Len(s))
    ELSE Zeros(width - Len(s)) \o s

\* str.zfill(width): zeros on the left up to width, after a leading sign;
\* a string already that long is returned as it is.
zfill(s, width) ==
    IF width <= Len(s) THEN s
    ELSE IF s # << >> /\ s[1] \in {"-"}
         THEN << s[1] >> \o Zeros(width - Len(s)) \o SubSeq(s, 2, Len(s))
         ELSE Zeros(width - Len(s)) \o s

\* sep.join(parts)
RECURSIVE str_join(_, _)
str_join(sep, parts) ==
    IF parts = << >> THEN << >>
    ELSE IF Len(parts) = 1 THEN parts[1]
    ELSE parts[1] \o sep \o str_join(sep, Tail(parts))

\* Position of the last "." of a name, 0 when there is none (str.rfind).
LastDot(name) ==
    IF \E k \in 1..Len(name) : name[k] = "."
    THEN CHOOSE k \in 1..Len(name) :
            name[k] = "." /\ \A j \in (k + 1)..Len(name) : name[j] # "."
    ELSE 0

\* pathlib: the suffix starts at the last dot when that dot is neither the
\* first nor the last character of the name.
HasSuffix(name) == LastDot(name) > 1 /\ LastDot(name) < Len(name)
path_suffix(name) ==
    IF HasSuffix(name) THEN SubSeq(name, LastDot(name), Len(name)) ELSE << >>
path_stem(name) ==
    IF HasSuffix(name) THEN SubSeq(name, 1, LastDot(name) - 1) ELSE name

-----------------------------------------------------------------------------
(* src/src/utils.py: the checks of the options.                            *)

is_valid_separator(character) == character \in {<< "_" >>, << "-" >>, << "." >>}
is_valid_start_index(number_initial) == number_initial > 0
is_valid_padding(number_padding) == number_padding >= 0
is_valid_case(str_case) == str_case \in {"lower", "upper", "title"}
is_invalid_keep_no_number_combination(keep, no_number) == (~keep) /\ no_number

\* Imported by src/cli.py from src/utils.py, which does not define them: taken
\* from the messages of cli.py and from the specification of the command line.
is_valid_order(order) == order \in {"name", "mtime", "ctime", "embedded"}
is_valid_prefix(prefix) == \A k \in 1..Len(prefix) : prefix[k] \notin {"/", " "}
is_invalid_dry_run_reverse_run_combination(dry_run, reverse_run) ==
    dry_run /\ reverse_run
is_invalid_run_reverse_with_extra_option(reverse_run, other_arguments) ==
    reverse_run /\ other_arguments

-----------------------------------------------------------------------------
(* src/src/utils.py: ordering.                                             *)

\* re.search(r"\d+", path.stem): the first maximal run of digits of the stem,
\* as an integer, or -1.
extract_embedded_number(name) ==
    LET stem == path_stem(name)
        digs == {k \in 1..Len(stem) : IsDigit(stem[k])}
    IN  IF digs = {} THEN -1
        ELSE LET first == CHOOSE k \in digs : \A j \in digs : k <= j
                 last == CHOOSE k \in first..Len(stem) :
                            /\ \A j \in first..k : IsDigit(stem[j])
                            /\ (k = Len(stem) \/ ~IsDigit(stem[k + 1]))
             IN  DigitsValue(SubSeq(stem, first, last))

\* key(a) < key(b) for the key of the given order.  st_mtime of a file is its
\* identity; st_ctime is what stat() answers when the plan is built.
KeyLess(order, fs, ctimes, a, b) ==
    CASE order = "name" -> StrLess(a, b)
      [] order = "mtime" -> fs[a] < fs[b]
      [] order = "ctime" -> ctimes[a] < ctimes[b]
      [] OTHER -> extract_embedded_number(a) < extract_embedded_number(b)

\* Faulty variant of SortedPos: elements with equal keys come out in the
\* reverse of their input order.
SortedPos_ties_reversed(order, fs, ctimes, list_files, k) ==
    1 + Cardinality({j \in 1..Len(list_files) :
                        KeyLess(order, fs, ctimes, list_files[j], list_files[k])})
      + Cardinality({j \in (k + 1)..Len(list_files) :
                        /\ ~KeyLess(order, fs, ctimes, list_files[j], list_files[k])
                        /\ ~KeyLess(order, fs, ctimes, list_files[k], list_files[j])})

\* sorted(list_files, key=...): stable, so an element goes after the elements
\* with a smaller key and after the earlier elements with an equal key.
SortedPos(order, fs, ctimes, list_files, k) ==
    1 + Cardinality({j \in 1..Len(list_files) :
                        KeyLess(order, fs, ctimes, list_files[j], list_files[k])})
      + Cardinality({j \in 1..(k - 1) :
                        /\ ~KeyLess(order, fs, ctimes, list_files[j], list_files[k])
                        /\ ~KeyLess(order, fs, ctimes, list_files[k], list_files[j])})

\* Faulty variant of sort_files: the list is returned as iterdir gave it.
sort_files_unsorted(list_files, order, fs, ctimes) ==
    IF order \notin {"name", "mtime", "ctime", "embedded"}
    THEN [ok |-> FALSE, list |-> << >>]
    ELSE [ok |-> TRUE, list |-> list_files]

\* sort_files: ok is FALSE when ValueError("Unsupported order") is raised.
sort_files(list_files, order, fs, ctimes) ==
    IF order \notin {"name", "mtime", "ctime", "embedded"}
    THEN [ok |-> FALSE, list |-> << >>]
    ELSE [ok |-> TRUE,
          list |-> [p \in 1..Len(list_files) |->
                      list_files[CHOOSE k \in 1..Len(list_files) :
                          SortedPos(order, fs, ctimes, list_files, k) = p]]]

-----------------------------------------------------------------------------
(* src/src/renamer.py: buil_rename_plan.                                   *)

\* The case transform of one component (match(case), lines 113-116).
apply_case(case, element) ==
    CASE case = "upper" -> str_upper(element)
      [] case = "title" -> str_title(element)
      [] OTHER -> str_lower(element)

\* The components of the new name of one file (lines 107-111).
name_parts(cfg, item, index) ==
    (IF cfg.prefix # << >> THEN << cfg.prefix >> ELSE << >>)
    \o (IF cfg.keep THEN << path_stem(item) >> ELSE << >>)
    \o (IF ~cfg.no_number THEN << zfill(int_str(index), cfg.padding) >> ELSE << >>)

\* The target of one file: src / f"{new_name}{item.suffix}" (lines 113-122).
target_name(cfg, item, index) ==
    LET parts == name_parts(cfg, item, index)
        cased == [k \in 1..Len(parts) |-> apply_case(cfg.case, parts[k])]
    IN  str_join(cfg.separator, cased) \o path_suffix(item)

\* rename_plan[item] = ...: a dict keeps one entry per key, at the position
\* of the first insertion, with the value of the last one.
DictSet(d, key, value) ==
    IF \E k \in 1..Len(d) : d[k][1] = key
    THEN [k \in 1..Len(d) |-> IF d[k][1] = key THEN << key, value >> ELSE d[k]]
    ELSE Append(d, << key, value >>)

RECURSIVE DictOf(_)
DictOf(pairs) ==
    IF pairs = << >> THEN << >>
    ELSE DictSet(DictOf(SubSeq(pairs, 1, Len(pairs) - 1)),
                 pairs[Len(pairs)][1], pairs[Len(pairs)][2])

\* buil_rename_plan(src, order=..., ...).  folder_ok: src exists and is a
\* directory; listing: the regular files of src in the order of iterdir.
\* raised: "none" or the error; fs_access: did the call touch the disk.
buil_rename_plan(folder_ok, listing, fs, ctimes, cfg) ==
    IF ~folder_ok
    THEN [raised |-> "InvalidSource", plan |-> << >>, fs_access |-> TRUE]
    ELSE LET ordered == sort_files(listing, cfg.order, fs, ctimes)
         IN  IF ~ordered.ok
             THEN [raised |-> "UnsupportedOrder", plan |-> << >>, fs_access |-> TRUE]
             ELSE [raised |-> "none",
                   plan |-> DictOf([k \in 1..Len(ordered.list) |->
                               << ordered.list[k],
                                  target_name(cfg, ordered.list[k], cfg.start + k - 1) >>]),
                   fs_access |-> TRUE]

-----------------------------------------------------------------------------
(* The folders and the options the model draws its inputs from.            *)

\* Names of files (a folder of the model holds at most MaxFiles of them).
FileUniverse ==
    { << "1", ".", "t" >>, << "a", ".", "t" >>, << "A", ".", "t" >> }

\* Names a sub-directory of the folder may have.
DirUniverse == { << "1", ".", "t" >> }

Photos ==
    { << "p", "h", "o", "t", "o", "1", ".", "j", "p", "g" >>,
      << "p", "h", "o", "t", "o", "2", ".", "j", "p", "g" >>,
      << "p", "h", "o", "t", "o", "1", "0", ".", "j", "p", "g" >> }

Texts ==
    { << "f", "i", "l", "e", "1", ".", "t", "x", "t" >>,
      << "f", "i", "l", "e", "3", ".", "t", "x", "t" >>,
      << "f", "i", "l", "e", "A", ".", "t", "x", "t" >>,
      << "F", "i", "l", "e", "a", ".", "t", "x", "t" >> }

\* The folders the plan builder is called on directly.
PlanFolders ==
    {S \in (SUBSET Photos) \cup (SUBSET Texts) \cup (SUBSET FileUniverse) :
        Cardinality(S) <= MaxPlanFiles}

\* One identity per file; st_mtime of a file is its identity (files are
\* numbered by age).
Identities(S) ==
    {f \in [S -> 1..Cardinality(S)] : \A a, b \in S : a # b => f[a] # f[b]}

\* The orders in which iterdir may list a set of names.
Listings(S) ==
    {l \in [1..Cardinality(S) -> S] : \A a \in S : \E k \in 1..Cardinality(S) : l[k] = a}

\* What stat() may answer for st_ctime, read only by the order "ctime".
Ctimes(S, order) ==
    IF order = "ctime" THEN [S -> 1..2] ELSE {[a \in S |-> 1]}

Orders == {"name", "mtime", "ctime", "embedded", "size"}
Prefixes == { << >>, << "i", "m", "g" >> }
Separators == { << "_" >>, << " " >> }
Starts == {0, 1, 9}
Paddings == {-1, 0, 1, 2}
Cases == {"lower", "upper", "title", "original"}

Configs ==
    [order : Orders, prefix : Prefixes, separator : Separators, start : Starts,
     padding : Paddings, case : Cases, keep : BOOLEAN, no_number : BOOLEAN]

\* The conditions of the docstring of buil_rename_plan on its options.
ValidConfig(cfg) ==
    /\ is_valid_order(cfg.order)
    /\ is_valid_prefix(cfg.prefix)
    /\ is_valid_separator(cfg.separator)
    /\ is_valid_start_index(cfg.start)
    /\ is_valid_padding(cfg.padding)
    /\ is_valid_case(cfg.case)
    /\ ~is_invalid_keep_no_number_combination(cfg.keep, cfg.no_number)

\* The newest files have the smallest names: st_mtime runs against the names.
NewestFirst(S) ==
    [a \in S |-> 1 + Cardinality({b \in S : StrLess(a, b)})]

NoBuilt == [called |-> FALSE]
NoOutcome == [result |-> "none", detail |-> "", at |-> 0]
NoBackup == [present |-> FALSE, parsable |-> FALSE, data |-> << >>]
\* A record file that json.load or the two dict comprehensions cannot read.
CorruptBackup == [present |-> TRUE, parsable |-> FALSE, data |-> << >>]
NoRun == [kind |-> "none", ok |-> FALSE, before |-> << >>]
Disk == [files |-> files, backup_folder |-> backup_folder, backup_json |-> backup_json]

\* The state before the first invocation, on a given folder.
Fresh ==
    /\ pc = "idle"
    /\ mode = "none"
    /\ caller = "none"
    /\ plan = << >>
    /\ temp_map = << >>
    /\ idx = 0
    /\ outcome = NoOutcome
    /\ args = [dry_run |-> FALSE, reverse_run |-> FALSE, extra |-> FALSE]
    /\ pre = Disk
    /\ hist = NoRun
    /\ runs = 0
    /\ built = NoBuilt

-----------------------------------------------------------------------------
(* Paths, the disk and the backup record.                                  *)

\* str(path) of a path of the folder "w", and Path(string) back: the name is
\* what follows the last "/"; src / "" is the folder itself.
FolderStr == << "w" >>
path_str(name) == IF name = << >> THEN FolderStr ELSE FolderStr \o << "/" >> \o name
LastSlash(str) ==
    IF \E k \in 1..Len(str) : str[k] = "/"
    THEN CHOOSE k \in 1..Len(str) :
            str[k] = "/" /\ \A j \in (k + 1)..Len(str) : str[j] # "/"
    ELSE 0
path_of(str) ==
    IF LastSlash(str) = 0 THEN << >> ELSE SubSeq(str, LastSlash(str) + 1, Len(str))

\* Faulty variant of json_dump: keys and values exchanged.
json_dump_roles_exchanged(rename_plan) ==
    DictOf([k \in 1..Len(rename_plan) |->
              << path_str(rename_plan[k][2]), path_str(rename_plan[k][1]) >>])

\* json.dump({str(k): str(v) for k, v in rename_plan.items()}, f, indent=2)
json_dump(rename_plan) ==
    DictOf([k \in 1..Len(rename_plan) |->
              << path_str(rename_plan[k][1]), path_str(rename_plan[k][2]) >>])

\* plan_backup = {Path(old): Path(new) for old, new in data.items()}
plan_backup_of(data) ==
    DictOf([k \in 1..Len(data) |-> << path_of(data[k][1]), path_of(data[k][2]) >>])

\* Faulty variant of plan_backup_anterior_of: the record is saved again as it
\* was loaded, old -> new, instead of inverted.
plan_backup_anterior_not_inverted(data) == plan_backup_of(data)

\* plan_backup_anterior = {Path(new): Path(old) for old, new in data.items()}
plan_backup_anterior_of(data) ==
    DictOf([k \in 1..Len(data) |-> << path_of(data[k][2]), path_of(data[k][1]) >>])

\* The folder itself and its sub-directories are directories.
IsDir(name) == name = << >> \/ name \in subdirs

\* Faulty variant of os_rename: the file is copied, the old name stays.
os_rename_copying(fs, old, new) ==
    IF old \notin DOMAIN fs THEN [ok |-> FALSE, files |-> fs]
    ELSE IF IsDir(new) THEN [ok |-> FALSE, files |-> fs]
    ELSE IF new = old THEN [ok |-> TRUE, files |-> fs]
    ELSE IF new \in DOMAIN fs /\ os_name = "nt" THEN [ok |-> FALSE, files |-> fs]
    ELSE [ok |-> TRUE,
          files |-> [n \in DOMAIN fs \cup {new} |->
                        IF n = new THEN fs[old] ELSE fs[n]]]

\* Path.rename (os.rename) of a regular file: fails when the source is missing
\* or the target is a directory; an existing target file is replaced on POSIX
\* and refused on Windows.
os_rename(fs, old, new) ==
    IF old \notin DOMAIN fs THEN [ok |-> FALSE, files |-> fs]
    ELSE IF IsDir(new) THEN [ok |-> FALSE, files |-> fs]
    ELSE IF new = old THEN [ok |-> TRUE, files |-> fs]
    ELSE IF new \in DOMAIN fs /\ os_name = "nt" THEN [ok |-> FALSE, files |-> fs]
    ELSE [ok |-> TRUE,
          files |-> [n \in (DOMAIN fs \ {old}) \cup {new} |->
                        IF n = new THEN fs[old] ELSE fs[n]]]

\* uuid.uuid4().hex, shortened to one hexadecimal digit.  uuid4 answers a value
\* never seen before: the values are interchangeable, and the model takes the
\* first digit that occurs, in either case, in no name of the disk, of the
\* plan, of temp_map or of the backup record.
UUIDs == << "e", "f", "d", "c", "b", "9", "8", "7", "6", "5", "4", "3", "0" >>
CharsOf(names) == UNION {{n[k] : k \in 1..Len(n)} : n \in names}
NamesOf(pairs) == {pairs[k][1] : k \in 1..Len(pairs)} \cup {pairs[k][2] : k \in 1..Len(pairs)}
SeenChars ==
    CharsOf(DOMAIN files \cup subdirs \cup NamesOf(plan) \cup NamesOf(temp_map)
            \cup NamesOf(backup_json.data))
uuid4 ==
    LET free == {k \in 1..Len(UUIDs) :
                    UUIDs[k] \notin SeenChars /\ UpperChar(UUIDs[k]) \notin SeenChars}
    IN  UUIDs[CHOOSE k \in free : \A j \in free : k <= j]

\* Faulty variant of temp_name_of: one temporary name for every entry.
temp_name_shared(name, uuid) == << "t", "m", "p" >>

\* old.with_name(f"{old.name}.{uuid.uuid4().hex}.tmp")
temp_name_of(name, uuid) == name \o << ".", uuid, ".", "t", "m", "p" >>

-----------------------------------------------------------------------------
(* src/src/renamer.py: rename_run and reverse_rename_run.                  *)

\* The path an entry is renamed from in the stage loop, and the path the
\* commit loop renames it to: old -> new for rename_run (lines 154-157),
\* new -> old for reverse_rename_run (lines 191-194).
stage_source(entry) == IF mode = "reverse" THEN entry[2] ELSE entry[1]
stage_target(entry) == IF mode = "reverse" THEN entry[1] ELSE entry[2]

Failed(phase, at) == [result |-> "RenameFailed", detail |-> phase, at |-> at]
Ended(result) == [result |-> result, detail |-> "", at |-> 0]

\* Faulty variant of Enter: the command line saves the record first, before
\* any rename of the plan.
Enter_saving_first(who, what, the_plan) ==
    /\ caller' = who
    /\ mode' = what
    /\ plan' = the_plan
    /\ temp_map' = << >>
    /\ idx' = 1
    /\ outcome' = Ended("running")
    /\ pc' = IF who = "cli" THEN "save" ELSE IF the_plan # << >> THEN "stage" ELSE "idle"

\* The executor is entered with a plan.
Enter(who, what, the_plan) ==
    /\ caller' = who
    /\ mode' = what
    /\ plan' = the_plan
    /\ temp_map' = << >>
    /\ idx' = 1
    /\ outcome' = Ended("running")
    /\ pc' = IF the_plan # << >> THEN "stage" ELSE IF who = "cli" THEN "save" ELSE "idle"

\* Faulty variant of rename_stage: one loop only, each entry is renamed
\* straight to its target.
rename_stage_direct ==
    /\ pc = "stage"
    /\ LET entry == plan[idx]
           r == os_rename(files, stage_source(entry), stage_target(entry))
       IN  IF r.ok
           THEN /\ files' = r.files
                /\ pc' = IF idx = Len(plan) THEN "idle" ELSE "stage"
                /\ idx' = IF idx = Len(plan) THEN idx ELSE idx + 1
                /\ outcome' = IF idx = Len(plan) THEN Ended("ok") ELSE outcome
           ELSE /\ pc' = "idle"
                /\ outcome' = Failed("stage", idx)
                /\ UNCHANGED <<files, idx>>
    /\ UNCHANGED <<os_name, subdirs, backup_folder, backup_json, mode, caller, plan,
                   temp_map, args, pre, hist, runs, built>>

\* One iteration of the first loop: the entry is renamed to a temporary name
\* of its own; an error of the rename ends the invocation.
rename_stage ==
    /\ pc = "stage"
    /\ LET entry == plan[idx]
           temp_name == temp_name_of(stage_source(entry), uuid4)
           r == os_rename(files, stage_source(entry), temp_name)
       IN  IF r.ok
           THEN /\ files' = r.files
                /\ temp_map' = DictSet(temp_map, temp_name, stage_target(entry))
                /\ pc' = IF idx = Len(plan) THEN "commit" ELSE "stage"
                /\ idx' = IF idx = Len(plan) THEN 1 ELSE idx + 1
                /\ UNCHANGED outcome
           ELSE /\ pc' = "idle"
                /\ outcome' = Failed("stage", idx)
                /\ UNCHANGED <<files, temp_map, idx>>
    /\ UNCHANGED <<os_name, subdirs, backup_folder, backup_json, mode, caller, plan,
                   args, pre, hist, runs, built>>

\* Faulty variant of rename_commit: an error of the rename is swallowed and
\* the loop goes on to the next entry.
rename_commit_swallowing ==
    /\ pc = "commit"
    /\ LET entry == temp_map[idx]
           r == os_rename(files, entry[1], entry[2])
       IN  /\ files' = r.files
           /\ idx' = IF idx = Len(temp_map) THEN idx ELSE idx + 1
           /\ pc' = IF idx < Len(temp_map) THEN "commit"
                    ELSE IF caller = "cli" THEN "save" ELSE "idle"
           /\ outcome' = IF idx = Len(temp_map) /\ caller # "cli"
                         THEN Ended("ok") ELSE outcome
    /\ UNCHANGED <<os_name, subdirs, backup_folder, backup_json, mode, caller, plan,
                   temp_map, args, pre, hist, runs, built>>

\* Faulty variant of rename_commit: a rename that fails puts every file back
\* under the name it had before the run.
rename_commit_rolling_back ==
    /\ pc = "commit"
    /\ LET entry == temp_map[idx]
           r == os_rename(files, entry[1], entry[2])
       IN  IF r.ok
           THEN /\ files' = r.files
                /\ idx' = IF idx = Len(temp_map) THEN idx ELSE idx + 1
                /\ pc' = IF idx < Len(temp_map) THEN "commit"
                         ELSE IF caller = "cli" THEN "save" ELSE "idle"
                /\ outcome' = IF idx = Len(temp_map) /\ caller # "cli"
                              THEN Ended("ok") ELSE outcome
           ELSE /\ pc' = "idle"
                /\ outcome' = Failed("commit", idx)
                /\ files' = pre.files
                /\ UNCHANGED idx
    /\ UNCHANGED <<os_name, subdirs, backup_folder, backup_json, mode, caller, plan,
                   temp_map, args, pre, hist, runs, built>>

\* One iteration of the second loop: the temporary name is renamed to the
\* target; after the last one the command line goes on to save the record.
rename_commit ==
    /\ pc = "commit"
    /\ LET entry == temp_map[idx]
           r == os_rename(files, entry[1], entry[2])
       IN  IF r.ok
           THEN /\ files' = r.files
                /\ idx' = IF idx = Len(temp_map) THEN idx ELSE idx + 1
                /\ pc' = IF idx < Len(temp_map) THEN "commit"
                         ELSE IF caller = "cli" THEN "save" ELSE "idle"
                /\ outcome' = IF idx = Len(temp_map) /\ caller # "cli"
                              THEN Ended("ok") ELSE outcome
           ELSE /\ pc' = "idle"
                /\ outcome' = Failed("commit", idx)
                /\ UNCHANGED <<files, idx>>
    /\ UNCHANGED <<os_name, subdirs, backup_folder, backup_json, mode, caller, plan,
                   temp_map, args, pre, hist, runs, built>>

-----------------------------------------------------------------------------
(* src/src/utils.py save_rename_plan_json, and src/cli.py cli_run.         *)

\* save_rename_plan_json(plan_renamer, path) after rename_run (cli.py 203),
\* save_rename_plan_json(plan_backup_anterior, path) after reverse_rename_run
\* (cli.py 200); the parent folder is created when missing.
save_rename_plan_json ==
    /\ pc = "save"
    /\ backup_folder' = TRUE
    /\ backup_json' =
         [present |-> TRUE,
          parsable |-> TRUE,
          data |-> IF mode = "reverse"
                   THEN json_dump(plan_backup_anterior_of(pre.backup_json.data))
                   ELSE json_dump(plan)]
    /\ pc' = "idle"
    /\ outcome' = Ended("ok")
    /\ UNCHANGED <<os_name, files, subdirs, mode, caller, plan, temp_map, idx,
                   args, pre, hist, runs, built>>

\* Faulty variant of other_arguments: the three flags are not looked at.
other_arguments_values_only(a) ==
    \/ a.prefix # << >>
    \/ a.separator # << "_" >>
    \/ a.start # 1
    \/ a.padding # 0
    \/ a.case # "lower"

\* other_arguments of cli_run (lines 149-151).
other_arguments(a) ==
    \/ a.prefix # << >>
    \/ a.separator # << "_" >>
    \/ a.start # 1
    \/ a.padding # 0
    \/ a.case # "lower"
    \/ a.keep
    \/ a.no_number
    \/ a.dry_run

\* The first check of cli_run that fails (lines 84-170), "none" when all pass.
cli_validate(a) ==
    CASE ~is_valid_order(a.order) -> "order"
      [] ~is_valid_prefix(a.prefix) -> "prefix"
      [] ~is_valid_separator(a.separator) -> "separator"
      [] ~is_valid_start_index(a.start) -> "start"
      [] ~is_valid_padding(a.padding) -> "padding"
      [] ~is_valid_case(a.case) -> "case"
      [] is_invalid_keep_no_number_combination(a.keep, a.no_number) -> "keep_no_number"
      [] is_invalid_run_reverse_with_extra_option(a.reverse_run, other_arguments(a))
            -> "reverse_run"
      [] is_invalid_dry_run_reverse_run_combination(a.dry_run, a.reverse_run)
            -> "dry_run_reverse_run"
      [] OTHER -> "none"

\* The command line with every option at its default (cli.py 66-76).
DefaultArgs ==
    [folder_ok |-> TRUE, order |-> "name", prefix |-> << >>, separator |-> << "_" >>,
     start |-> 1, padding |-> 0, case |-> "lower", keep |-> FALSE,
     no_number |-> FALSE, dry_run |-> FALSE, reverse_run |-> FALSE]

\* Some option other than --order and --reverse-run is not at its default.
NonDefault(a) ==
    \E o \in {"prefix", "separator", "start", "padding", "case", "keep",
               "no_number", "dry_run"} : a[o] # DefaultArgs[o]

\* What the model keeps of a command line.
Kept(a) == [dry_run |-> a.dry_run, reverse_run |-> a.reverse_run, extra |-> NonDefault(a)]

\* The command lines of the model: any order and any flags with the other
\* options at their defaults, the command lines with one refused value, and
\* --reverse-run with one accepted value that is not the default.
CliArgs ==
    {[DefaultArgs EXCEPT !.order = o, !.keep = k, !.no_number = n,
                         !.dry_run = d, !.reverse_run = r] :
        o \in {"name", "mtime", "embedded"}, k \in BOOLEAN, n \in BOOLEAN,
        d \in BOOLEAN, r \in BOOLEAN}
    \cup {[DefaultArgs EXCEPT !.folder_ok = FALSE],
          [DefaultArgs EXCEPT !.order = "size"],
          [DefaultArgs EXCEPT !.prefix = << "/" >>],
          [DefaultArgs EXCEPT !.separator = << " " >>],
          [DefaultArgs EXCEPT !.start = 0],
          [DefaultArgs EXCEPT !.padding = -1],
          [DefaultArgs EXCEPT !.case = "original"]}
    \cup {[DefaultArgs EXCEPT !.reverse_run = TRUE, !.prefix = << "i", "m", "g" >>],
          [DefaultArgs EXCEPT !.reverse_run = TRUE, !.separator = << "-" >>],
          [DefaultArgs EXCEPT !.reverse_run = TRUE, !.start = 9],
          [DefaultArgs EXCEPT !.reverse_run = TRUE, !.padding = 2],
          [DefaultArgs EXCEPT !.reverse_run = TRUE, !.case = "upper"]}

\* An invocation starts: the one before it moves to hist, the disk is noted.
Begin(a) ==
    /\ runs' = runs + 1
    /\ hist' = [kind |-> IF caller # "cli" THEN caller
                         ELSE IF args.dry_run THEN "dry"
                         ELSE IF args.reverse_run THEN "reverse" ELSE "run",
                ok |-> outcome.result = "ok",
                before |-> pre.files]
    /\ pre' = Disk
    /\ args' = a

\* An invocation that ends before the executor is entered.
EndAtOnce(result, detail) ==
    /\ pc' = "idle"
    /\ caller' = "cli"
    /\ mode' = "none"
    /\ plan' = << >>
    /\ temp_map' = << >>
    /\ idx' = 0
    /\ outcome' = [result |-> result, detail |-> detail, at |-> 0]

\* Faulty variant of cli_run: get_backup_folder() is called on entry, before
\* the options are checked and the plan is built.
cli_run_folder_first ==
    /\ pc = "idle"
    /\ runs < MaxRuns
    /\ \E a \in CliArgs :
         \E listing \in (IF a.folder_ok THEN Listings(DOMAIN files) ELSE {<< >>}) :
           \E ctimes \in Ctimes(DOMAIN files, a.order) :
             LET plan_renamer == buil_rename_plan(a.folder_ok, listing, files, ctimes, a)
             IN  /\ Begin(Kept(a))
                 /\ backup_folder' = TRUE
                 /\ IF cli_validate(a) # "none"
                    THEN EndAtOnce("ConfigError", cli_validate(a))
                    ELSE IF plan_renamer.raised # "none"
                    THEN EndAtOnce(plan_renamer.raised, "")
                    ELSE IF a.dry_run
                    THEN EndAtOnce("ok", "")
                    ELSE IF a.reverse_run
                    THEN IF ~backup_json.present
                         THEN EndAtOnce("BackupNotFound", "")
                         ELSE IF ~backup_json.parsable
                         THEN EndAtOnce("BackupCorrupt", "")
                         ELSE Enter("cli", "reverse", plan_backup_of(backup_json.data))
                    ELSE Enter("cli", "run", plan_renamer.plan)
    /\ UNCHANGED <<os_name, files, subdirs, backup_json, built>>

\* cli_run up to the call of the executor: the checks of the options, the
\* plan, the backup folder, then the mode (lines 84-203).
cli_run ==
    /\ pc = "idle"
    /\ runs < MaxRuns
    /\ \E a \in CliArgs :
         \E listing \in (IF a.folder_ok THEN Listings(DOMAIN files) ELSE {<< >>}) :
           \E ctimes \in Ctimes(DOMAIN files, a.order) :
             LET plan_renamer == buil_rename_plan(a.folder_ok, listing, files, ctimes, a)
             IN  /\ Begin(Kept(a))
                 /\ IF cli_validate(a) # "none"
                    THEN /\ EndAtOnce("ConfigError", cli_validate(a))
                         /\ UNCHANGED <<backup_folder>>
                    ELSE IF plan_renamer.raised # "none"
                    THEN /\ EndAtOnce(plan_renamer.raised, "")
                         /\ UNCHANGED <<backup_folder>>
                    ELSE /\ backup_folder' = TRUE
                         /\ IF a.dry_run
                            THEN EndAtOnce("ok", "")
                            ELSE IF a.reverse_run
                            THEN IF ~backup_json.present
                                 THEN EndAtOnce("BackupNotFound", "")
                                 ELSE IF ~backup_json.parsable
                                 THEN EndAtOnce("BackupCorrupt", "")
                                 ELSE Enter("cli", "reverse",
                                            plan_backup_of(backup_json.data))
                            ELSE Enter("cli", "run", plan_renamer.plan)
    /\ UNCHANGED <<os_name, files, subdirs, backup_json, built>>

Init ==
    /\ os_name \in {"posix", "nt"}
    /\ \E S \in SUBSET FileUniverse :
         /\ Cardinality(S) <= MaxFiles
         /\ files \in Identities(S)
         /\ subdirs \in SUBSET (DirUniverse \ S)
    /\ backup_folder \in BOOLEAN
    /\ backup_json \in {NoBackup} \cup (IF backup_folder THEN {CorruptBackup} ELSE {})
    /\ Fresh

Next ==
    \/ cli_run
    \/ rename_stage
    \/ rename_commit
    \/ save_rename_plan_json

Spec == Init /\ [][Next]_vars

-----------------------------------------------------------------------------
(* The executors called directly with a plan.                              *)

ApiNames == { << "1", ".", "t" >>, << "2", ".", "t" >>, << "a", ".", "t" >> }
ApiEntries == ApiNames \X ApiNames

\* A plan is a dict: no two entries have the same key.
ApiPlans ==
    UNION {{p \in [1..n -> ApiEntries] :
              \A j, k \in 1..n : j # k => p[j][1] # p[k][1]} : n \in 1..MaxApiPlan}

\* rename_run(plan) or reverse_rename_run(plan), once, on a fresh folder.
api_run ==
    /\ pc = "idle"
    /\ runs = 0
    /\ \E the_plan \in ApiPlans, what \in {"run", "reverse"} :
         /\ Begin([dry_run |-> FALSE, reverse_run |-> what = "reverse", extra |-> FALSE])
         /\ Enter("api", what, the_plan)
    /\ UNCHANGED <<os_name, files, subdirs, backup_folder, backup_json, built>>

InitApi ==
    /\ os_name \in {"posix", "nt"}
    /\ \E S \in SUBSET ApiNames :
         /\ Cardinality(S) <= MaxFiles
         /\ files \in Identities(S)
         /\ subdirs \in SUBSET (DirUniverse \ S)
    /\ backup_folder = FALSE
    /\ backup_json = NoBackup
    /\ Fresh

NextApi ==
    \/ api_run
    \/ rename_stage
    \/ rename_commit

SpecApi == InitApi /\ [][NextApi]_vars

-----------------------------------------------------------------------------
(* The plan builder called directly.                                       *)

InitPlan ==
    /\ os_name = "posix"
    /\ \E S \in PlanFolders : files = NewestFirst(S)
    /\ subdirs = {}
    /\ backup_folder = FALSE
    /\ backup_json = NoBackup
    /\ Fresh

\* plan = buil_rename_plan(folder, order=..., ...), called once.
ApiBuildPlan ==
    /\ pc = "idle"
    /\ ~built.called
    /\ \E cfg \in Configs, folder_ok \in BOOLEAN :
         \E listing \in (IF folder_ok THEN Listings(DOMAIN files) ELSE {<< >>}) :
            \E ctimes \in Ctimes(DOMAIN files, cfg.order) :
               built' = [called |-> TRUE, cfg |-> cfg, folder_ok |-> folder_ok,
                         result |-> buil_rename_plan(folder_ok, listing, files, ctimes, cfg)]
    /\ UNCHANGED <<os_name, files, subdirs, backup_folder, backup_json, pc, mode,
                   caller, plan, temp_map, idx, outcome, args, pre, hist, runs>>

NextPlan == ApiBuildPlan

SpecPlan == InitPlan /\ [][NextPlan]_vars

-----------------------------------------------------------------------------
(* Properties of the executors (checked under SpecApi).                    *)

Sources == {plan[k][1] : k \in 1..Len(plan)}
Targets == {plan[k][2] : k \in 1..Len(plan)}
DistinctTargets == \A j, k \in 1..Len(plan) : j # k => plan[j][2] # plan[k][2]
FilesOn(fs) == {fs[n] : n \in DOMAIN fs}

\* rename_run was called on a plan of existing files with distinct targets.
C1_Case ==
    /\ mode = "run"
    /\ Sources \subseteq DOMAIN pre.files
    /\ DistinctTargets

\* No target is a directory or a file of the folder that the plan leaves alone.
C1_TargetsFree ==
    \A t \in Targets : ~IsDir(t) /\ (t \in DOMAIN pre.files => t \in Sources)

\* The run has not failed, has lost no file, and once ended has put every
\* file under its target.
C1_Safe ==
    /\ outcome.result # "RenameFailed"
    /\ FilesOn(files) = FilesOn(pre.files)
    /\ (pc = "idle" =>
           \A k \in 1..Len(plan) :
              /\ plan[k][2] \in DOMAIN files
              /\ files[plan[k][2]] = pre.files[plan[k][1]])

\* C1 as claimed: for any plan whose sources are existing files of the folder
\* and whose targets are pairwise distinct, rename_run completes, every
\* target holds the file that was at its source, and no file is lost or
\* overwritten at any step.
C1_AnyPlanCompletes == C1_Case => C1_Safe

\* C1 as amended: the same, for plans none of whose targets is a directory or
\* an existing file outside the sources of the plan.
C1_FreeTargetsComplete == (C1_Case /\ C1_TargetsFree) => C1_Safe

\* C1 witness: the full swap 1.t -> 2.t, 2.t -> 1.t has been carried out.
C1_SwapDone ==
    /\ mode = "run"
    /\ pc = "idle"
    /\ outcome.result = "ok"
    /\ plan = << << << "1", ".", "t" >>, << "2", ".", "t" >> >>,
                 << << "2", ".", "t" >>, << "1", ".", "t" >> >> >>
    /\ files[<< "1", ".", "t" >>] = pre.files[<< "2", ".", "t" >>]
    /\ files[<< "2", ".", "t" >>] = pre.files[<< "1", ".", "t" >>]

SourceOf(j) == stage_source(plan[j])
TargetOf(j) == stage_target(plan[j])
TempOf(j) == temp_map[j][1]

\* The disk when the stage loop failed at entry k: the entries before k are
\* under their temporary names, every other file is where it was.
StageFailureShape(k) ==
    LET staged == {SourceOf(j) : j \in 1..(k - 1)}
        temps == {TempOf(j) : j \in 1..(k - 1)}
    IN  /\ Len(temp_map) = k - 1
        /\ \A j \in 1..(k - 1) :
              TempOf(j) \in DOMAIN files /\ files[TempOf(j)] = pre.files[SourceOf(j)]
        /\ DOMAIN files = (DOMAIN pre.files \ staged) \cup temps
        /\ \A n \in DOMAIN pre.files \ staged : files[n] = pre.files[n]

\* The last entry before k that was committed to the target of entry j.
LastTo(j, k) ==
    CHOOSE m \in 1..(k - 1) :
        /\ TargetOf(m) = TargetOf(j)
        /\ \A q \in 1..(k - 1) : TargetOf(q) = TargetOf(j) => q <= m

\* The disk when the commit loop failed at entry k: the entries before k are
\* under their targets, the entries from k on under their temporary names.
CommitFailureShape(k) ==
    /\ Len(temp_map) = Len(plan)
    /\ \A j \in k..Len(plan) :
          TempOf(j) \in DOMAIN files /\ files[TempOf(j)] = pre.files[SourceOf(j)]
    /\ \A j \in 1..(k - 1) :
          /\ TempOf(j) \notin DOMAIN files
          /\ TargetOf(j) \in DOMAIN files
          /\ files[TargetOf(j)] = pre.files[SourceOf(LastTo(j, k))]
    /\ \A n \in DOMAIN pre.files :
          (n \notin {SourceOf(j) : j \in 1..Len(plan)}
             /\ n \notin {TargetOf(j) : j \in 1..(k - 1)})
          => (n \in DOMAIN files /\ files[n] = pre.files[n])

\* C4: when a rename of the stage loop or of the commit loop fails, the run
\* stops there: the renames before it stay applied (temporary names after a
\* stage failure; targets, then temporary names, after a commit failure) and
\* no later entry has been touched.
C4_StopsWithoutRollback ==
    outcome.result = "RenameFailed" =>
        /\ pc = "idle"
        /\ outcome.detail = "stage" => StageFailureShape(outcome.at)
        /\ outcome.detail = "commit" => CommitFailureShape(outcome.at)

\* C4 witness: rename_run failed at the second commit, with the first entry
\* under its target and the second under its temporary name.
C4_SecondCommitFailed ==
    /\ mode = "run"
    /\ outcome = Failed("commit", 2)
    /\ TargetOf(1) \in DOMAIN files
    /\ TempOf(2) \in DOMAIN files

-----------------------------------------------------------------------------
(* Properties of the command line (checked under Spec).                    *)

CliEnded == pc = "idle" /\ caller = "cli" /\ runs > 0

\* C2: a forward run that succeeded, then a reverse run on its record, leave
\* the folder with exactly the names it had before the forward run.
C2_ForwardThenReverse ==
    (/\ CliEnded
     /\ args.reverse_run
     /\ outcome.result \in {"ok", "RenameFailed"}
     /\ hist.kind = "run"
     /\ hist.ok)
    => DOMAIN files = DOMAIN hist.before

\* C5: a --dry-run invocation with valid options leaves the disk as it was:
\* no rename, no backup record, no file or directory created.
C5_DryRunChangesNothing ==
    (CliEnded /\ args.dry_run /\ outcome.result = "ok") => Disk = pre

\* C6: the record changes only at the end of a run all of whose renames have
\* succeeded, and a run one of whose renames failed leaves the record as it
\* was.
C6_RecordOnlyAfterSuccess ==
    /\ backup_json # pre.backup_json =>
          /\ CliEnded
          /\ outcome.result = "ok"
          /\ ~args.dry_run
          /\ Len(temp_map) = Len(plan)
          /\ \A j \in 1..Len(temp_map) :
                TempOf(j) \notin DOMAIN files /\ TargetOf(j) \in DOMAIN files
    /\ outcome.result = "RenameFailed" => backup_json = pre.backup_json

\* C6 witness: a forward run of two files has ended and written its record.
C6_RecordWritten ==
    /\ CliEnded
    /\ ~args.reverse_run
    /\ outcome.result = "ok"
    /\ Len(plan) = 2
    /\ backup_json.present
    /\ backup_json # pre.backup_json

Swapped(data) == {<< data[k][2], data[k][1] >> : k \in 1..Len(data)}
Pairs(data) == {data[k] : k \in 1..Len(data)}

\* C7: after a reverse run that succeeded the record is the inverse of the
\* record it loaded, and a second reverse run right after it succeeds and
\* puts every file back where the first one found it.
C7_ReverseTwice ==
    (CliEnded /\ args.reverse_run /\ outcome.result \in {"ok", "RenameFailed"}) =>
        /\ outcome.result = "ok" =>
              /\ backup_json.present
              /\ Len(backup_json.data) = Len(pre.backup_json.data)
              /\ Pairs(backup_json.data) = Swapped(pre.backup_json.data)
        /\ (hist.kind = "reverse" /\ hist.ok) =>
              /\ outcome.result = "ok"
              /\ files = hist.before

\* C7 witness: two reverse runs in a row have succeeded and moved two files.
C7_ReversedTwice ==
    /\ CliEnded
    /\ args.reverse_run
    /\ outcome.result = "ok"
    /\ hist.kind = "reverse"
    /\ hist.ok
    /\ Len(backup_json.data) = 2
    /\ DOMAIN files # DOMAIN pre.files

\* C10: an invocation that ends with a validation error has changed nothing
\* on the disk: no rename, no backup record, no directory.
C10_ValidationBeforeMutation ==
    (CliEnded /\ outcome.result \in {"ConfigError", "InvalidSource"}) => Disk = pre

\* C10 witness: an invocation on a missing folder ended with an error, on a
\* machine without a backup folder.
C10_RejectedOnFreshMachine ==
    /\ CliEnded
    /\ outcome.result = "InvalidSource"
    /\ ~backup_folder

-----------------------------------------------------------------------------
(* Properties of the plan builder (checked under SpecPlan).                *)

BuiltPlan == built.result.plan

\* C3: for a valid configuration the builder returns one entry per file of
\* the folder, and no two of them with the same target.
C3_PlanIsBijection ==
    (built.called /\ built.folder_ok /\ ValidConfig(built.cfg)
       /\ built.result.raised = "none")
    => /\ {BuiltPlan[k][1] : k \in 1..Len(BuiltPlan)} = DOMAIN files
       /\ Len(BuiltPlan) = Cardinality(DOMAIN files)
       /\ \A j, k \in 1..Len(BuiltPlan) : j # k => BuiltPlan[j][2] # BuiltPlan[k][2]

\* C8: called with keep = false and no_number = true the builder fails,
\* returns no plan, and has not touched the disk.
C8_KeepNoNumberRejected ==
    (built.called /\ ~built.cfg.keep /\ built.cfg.no_number)
    => /\ built.result.raised = "ConfigError"
       /\ built.result.plan = << >>
       /\ ~built.result.fs_access

\* C9: called with start <= 0, padding < 0, a separator or a case outside the
\* allowed sets, the builder fails with a configuration error and returns no
\* plan.
C9_InvalidConfigRejected ==
    (/\ built.called
     /\ \/ ~is_valid_start_index(built.cfg.start)
        \/ ~is_valid_padding(built.cfg.padding)
        \/ ~is_valid_separator(built.cfg.separator)
        \/ ~is_valid_case(built.cfg.case))
    => /\ built.result.raised = "ConfigError"
       /\ built.result.plan = << >>

-----------------------------------------------------------------------------
(* Further properties of the command line (checked under Spec).            *)

\* C11: a reverse run whose record is absent or cannot be read ends with an
\* error and leaves the disk as it was: no rename, no record written, no
\* directory created.
C11_ReverseWithoutRecord ==
    (CliEnded /\ args.reverse_run
       /\ outcome.result \in {"BackupNotFound", "BackupCorrupt"})
    => Disk = pre

-----------------------------------------------------------------------------
(* The plan builder called, its plan applied by rename_run, and the        *)
(* builder called again on the renamed folder with the same options.       *)

TwiceConfigs ==
    {cfg \in [order : {"name", "mtime", "ctime", "embedded"},
              prefix : { << >>, << "i", "2" >> },
              separator : { << "_" >> },
              start : {1, 9},
              padding : {0, 2},
              case : {"lower", "upper"},
              keep : BOOLEAN,
              no_number : BOOLEAN] : ValidConfig(cfg)}

NotAgain == [called |-> FALSE]

InitTwice ==
    /\ os_name = "posix"
    /\ \E S \in SUBSET Photos :
         /\ Cardinality(S) <= MaxPlanFiles
         /\ files = NewestFirst(S)
    /\ subdirs = {}
    /\ backup_folder = FALSE
    /\ backup_json = NoBackup
    /\ Fresh

\* plan = buil_rename_plan(folder, ...), the first call.
build_first ==
    /\ pc = "idle"
    /\ ~built.called
    /\ \E cfg \in TwiceConfigs :
         \E listing \in Listings(DOMAIN files) :
            \E ctimes \in Ctimes(DOMAIN files, cfg.order) :
               built' = [called |-> TRUE, cfg |-> cfg, folder_ok |-> TRUE,
                         result |-> buil_rename_plan(TRUE, listing, files, ctimes, cfg),
                         again |-> NotAgain]
    /\ UNCHANGED <<os_name, files, subdirs, backup_folder, backup_json, pc, mode,
                   caller, plan, temp_map, idx, outcome, args, pre, hist, runs>>

\* rename_run(plan) on the plan just built.
apply_built ==
    /\ pc = "idle"
    /\ built.called
    /\ runs = 0
    /\ Begin([dry_run |-> FALSE, reverse_run |-> FALSE, extra |-> FALSE])
    /\ Enter("api", "run", built.result.plan)
    /\ UNCHANGED <<os_name, files, subdirs, backup_folder, backup_json, built>>

\* buil_rename_plan(folder, ...) again, with the same options, once rename_run
\* has returned; the listing and st_ctime are what the disk answers then.
build_again ==
    /\ pc = "idle"
    /\ mode = "run"
    /\ outcome.result = "ok"
    /\ built.called
    /\ ~built.again.called
    /\ \E listing \in Listings(DOMAIN files) :
         \E ctimes \in Ctimes(DOMAIN files, built.cfg.order) :
            built' = [built EXCEPT !.again =
                        [called |-> TRUE,
                         result |-> buil_rename_plan(TRUE, listing, files, ctimes,
                                                     built.cfg)]]
    /\ UNCHANGED <<os_name, files, subdirs, backup_folder, backup_json, pc, mode,
                   caller, plan, temp_map, idx, outcome, args, pre, hist, runs>>

NextTwice ==
    \/ build_first
    \/ apply_built
    \/ rename_stage
    \/ rename_commit
    \/ build_again

SpecTwice == InitTwice /\ [][NextTwice]_vars

\* The plan of the second call.
PlanAgain == built.again.result.plan

\* The second call mapped every file to the name it already has.
NoDrift == \A k \in 1..Len(PlanAgain) : PlanAgain[k][2] = PlanAgain[k][1]

HasDigit(s) == \E k \in 1..Len(s) : IsDigit(s[k])

\* The printed index of the file numbered i with the options cfg.
IndexStr(cfg, i) == zfill(int_str(i), cfg.padding)

\* The order of the options is reproduced on the renamed files: by mtime
\* (the mtimes are pairwise distinct), by embedded number with a prefix
\* without digits, by name when all the indices print with one width.
OrderReproduced(cfg, n) ==
    \/ cfg.order = "mtime"
    \/ cfg.order = "embedded" /\ ~HasDigit(cfg.prefix)
    \/ cfg.order = "name"
          /\ \A i \in cfg.start..(cfg.start + n - 1) :
                 Len(IndexStr(cfg, i)) = Len(IndexStr(cfg, cfg.start))

-----------------------------------------------------------------------------
(* The options of a reverse run (checked under Spec).                      *)

\* C13: an invocation with --reverse-run and another option away from its
\* default ends with a configuration error: no plan was built, the record
\* was not read, nothing was renamed and the disk is as it was.
C13_ReverseRunAlone ==
    (CliEnded /\ args.reverse_run /\ args.extra)
    => /\ outcome.result = "ConfigError"
       /\ plan = << >>
       /\ temp_map = << >>
       /\ Disk = pre

\* C13 witness: --reverse-run with another option was refused by the check
\* of line 154 although a record that could have been reverted is on disk.
C13_RefusedWithRecord ==
    /\ CliEnded
    /\ args.reverse_run
    /\ args.extra
    /\ outcome = [result |-> "ConfigError", detail |-> "reverse_run", at |-> 0]
    /\ backup_json.present
    /\ backup_json.parsable
    /\ backup_json.data # << >>

-----------------------------------------------------------------------------
(* The record stored and loaded (checked under Spec).                      *)

\* The record on disk, loaded as cli_run loads it.
Loaded == plan_backup_of(backup_json.data)

\* C14: the record a run has stored, loaded back, is the mapping that was
\* stored, pair by pair and in the same roles, its strings are the strings
\* on disk, and nothing of the record of before is left.
C14_RecordRoundTrip ==
    (CliEnded /\ outcome.result = "ok" /\ ~args.dry_run) =>
        /\ backup_json.present
        /\ backup_json.parsable
        /\ json_dump(Loaded) = backup_json.data
        /\ mode = "run" => Loaded = plan
        /\ mode = "reverse" =>
              /\ Len(Loaded) = Len(plan)
              /\ Pairs(Loaded) = Swapped(plan)

\* C14 witness: a forward run stored a plan of two entries over a record of
\* an earlier run, and loading the record gives that plan.
C14_StoredOverEarlier ==
    /\ CliEnded
    /\ mode = "run"
    /\ outcome.result = "ok"
    /\ Len(plan) = 2
    /\ plan[1][1] # plan[1][2]
    /\ pre.backup_json.present
    /\ pre.backup_json.parsable
    /\ pre.backup_json.data # backup_json.data
    /\ Loaded = plan

-----------------------------------------------------------------------------
(* The names the builder gives (checked under SpecPlan).                   *)

\* The number of decimal digits of n >= 0.
RECURSIVE DigitCount(_)
DigitCount(n) == IF n < 10 THEN 1 ELSE 1 + DigitCount(n \div 10)

\* target is the name of source numbered i under cfg: the suffix of source
\* unchanged at the end; before it the index i in decimal digits, of width
\* padding or wider when i needs it; before that the prefix and, with keep,
\* the stem, case-transformed, each followed by the separator.
NumberedAs(cfg, source, target, i) ==
    LET suffix == path_suffix(source)
        n == Len(target) - Len(suffix)
        w == IF cfg.padding > DigitCount(i) THEN cfg.padding ELSE DigitCount(i)
        lead == (IF cfg.prefix # << >> THEN apply_case(cfg.case, cfg.prefix) \o cfg.separator
                 ELSE << >>)
                \o (IF cfg.keep THEN apply_case(cfg.case, path_stem(source)) \o cfg.separator
                    ELSE << >>)
    IN  /\ n >= w
        /\ SubSeq(target, n + 1, Len(target)) = suffix
        /\ \A k \in (n - w + 1)..n : IsDigit(target[k])
        /\ DigitsValue(SubSeq(target, n - w + 1, n)) = i
        /\ SubSeq(target, 1, n - w) = lead

ExampleCfg ==
    [order |-> "name", prefix |-> << "i", "m", "g" >>, separator |-> << "_" >>,
     start |-> 1, padding |-> 2, case |-> "upper", keep |-> FALSE, no_number |-> FALSE]

ExamplePlan ==
    << << << "p", "h", "o", "t", "o", "1", ".", "j", "p", "g" >>,
          << "I", "M", "G", "_", "0", "1", ".", "j", "p", "g" >> >>,
       << << "p", "h", "o", "t", "o", "1", "0", ".", "j", "p", "g" >>,
          << "I", "M", "G", "_", "0", "2", ".", "j", "p", "g" >> >>,
       << << "p", "h", "o", "t", "o", "2", ".", "j", "p", "g" >>,
          << "I", "M", "G", "_", "0", "3", ".", "j", "p", "g" >> >> >>

-----------------------------------------------------------------------------
(* sort_files called directly on a list of files.                          *)

\* The names of the lists: with no digit, with one run of digits, with
\* leading zeros, with two runs.
SortNames ==
    Texts \cup { << "f", "i", "l", "e", "0", "1", ".", "t", "x", "t" >>,
                 << "f", "1", "x", "2", "0", ".", "t" >> }

InitSort ==
    /\ os_name = "posix"
    /\ \E S \in SUBSET SortNames :
         /\ Cardinality(S) <= MaxPlanFiles
         /\ files = NewestFirst(S)
    /\ subdirs = {}
    /\ backup_folder = FALSE
    /\ backup_json = NoBackup
    /\ Fresh

\* ordered_files = sort_files(files, order), called once.
ApiSortFiles ==
    /\ pc = "idle"
    /\ ~built.called
    /\ \E order \in Orders, list_files \in Listings(DOMAIN files) :
         \E ctimes \in Ctimes(DOMAIN files, order) :
            built' = [called |-> TRUE, order |-> order, list_files |-> list_files,
                      sorted |-> sort_files(list_files, order, files, ctimes)]
    /\ UNCHANGED <<os_name, files, subdirs, backup_folder, backup_json, pc, mode,
                   caller, plan, temp_map, idx, outcome, args, pre, hist, runs>>

NextSort == ApiSortFiles

SpecSort == InitSort /\ [][NextSort]_vars

\* The position of a name in a list without repetition.
PosIn(list, name) == CHOOSE k \in 1..Len(list) : list[k] = name

\* The value of the digits of s from position k up to the first non-digit.
RECURSIVE RunValue(_, _, _)
RunValue(s, k, acc) ==
    IF k > Len(s) \/ ~IsDigit(s[k]) THEN acc
    ELSE RunValue(s, k + 1, 10 * acc + (Ord(s[k]) - Ord("0")))

\* The key the embedded order is stated with: -1 without a digit in the stem,
\* else the value of the first run of digits.
EmbeddedKey(name) ==
    LET stem == path_stem(name)
    IN  IF \A k \in 1..Len(stem) : ~IsDigit(stem[k]) THEN -1
        ELSE RunValue(stem, CHOOSE k \in 1..Len(stem) :
                               IsDigit(stem[k]) /\ \A j \in 1..(k - 1) : ~IsDigit(stem[j]),
                      0)

File1 == << "f", "i", "l", "e", "1", ".", "t", "x", "t" >>
File3 == << "f", "i", "l", "e", "3", ".", "t", "x", "t" >>
FileA == << "f", "i", "l", "e", "A", ".", "t", "x", "t" >>

\* C16: with the embedded order sort_files returns a permutation of its
\* input, ascending by the value of the first run of digits of the stem, -1
\* for a stem without digits, entries with equal keys in their input order;
\* and file3, file1, fileA come out as fileA, file1, file3.
C16_EmbeddedOrder ==
    (built.called /\ built.order = "embedded") =>
        LET input == built.list_files
            out == built.sorted.list
        IN  /\ built.sorted.ok
            /\ Len(out) = Len(input)
            /\ {out[k] : k \in 1..Len(out)} = {input[k] : k \in 1..Len(input)}
            /\ \A k \in 1..Len(input) :
                  extract_embedded_number(input[k]) = EmbeddedKey(input[k])
            /\ \A j, k \in 1..Len(out) :
                  j < k =>
                    \/ EmbeddedKey(out[j]) < EmbeddedKey(out[k])
                    \/ /\ EmbeddedKey(out[j]) = EmbeddedKey(out[k])
                       /\ PosIn(input, out[j]) < PosIn(input, out[k])
            /\ input = << File3, File1, FileA >> => out = << FileA, File1, File3 >>

\* C16 witness: the list of the example has been sorted.
C16_ExampleSorted ==
    /\ built.called
    /\ built.order = "embedded"
    /\ built.list_files = << File3, File1, FileA >>
    /\ built.sorted.list = << FileA, File1, File3 >>

-----------------------------------------------------------------------------
(* The two phases of the executors (checked under SpecApi).                *)

\* A step of the first loop: entry idx of the plan, the entries before it
\* being staged already, goes from its source to a new temporary name.
StageStep ==
    /\ pc = "stage"
    /\ Len(temp_map) = idx - 1
    /\ Len(temp_map') = idx
    /\ \A j \in 1..(idx - 1) : temp_map'[j] = temp_map[j]
    /\ temp_map'[idx][2] = stage_target(plan[idx])
    /\ temp_map'[idx][1] \notin DOMAIN files
    /\ files' = os_rename(files, stage_source(plan[idx]), temp_map'[idx][1]).files
    /\ pc' = IF idx = Len(plan) THEN "commit" ELSE "stage"
    /\ idx' = IF idx = Len(plan) THEN 1 ELSE idx + 1

\* A step of the second loop: every entry of the plan is staged, and entry
\* idx goes from its temporary name to its target.
CommitStep ==
    /\ pc = "commit"
    /\ Len(temp_map) = Len(plan)
    /\ temp_map' = temp_map
    /\ temp_map[idx][2] = stage_target(plan[idx])
    /\ files' = os_rename(files, temp_map[idx][1], stage_target(plan[idx])).files
    /\ pc' = IF idx = Len(plan) THEN "idle" ELSE "commit"
    /\ idx' = IF idx = Len(plan) THEN idx ELSE idx + 1

\* C17: the renames of a run happen one at a time, each a step of the first
\* loop or of the second in the order of the plan, and no step of the first
\* loop comes after a step of the second.
C17_PhasesInOrder ==
    [][/\ files' # files =>
            /\ StageStep \/ CommitStep
            /\ Cardinality(DOMAIN files \ DOMAIN files') = 1
            /\ Cardinality(DOMAIN files' \ DOMAIN files) <= 1
       /\ pc = "commit" => pc' # "stage"
       /\ (pc = "stage" /\ pc' = "commit") => Len(temp_map') = Len(plan)]_vars

\* C17 witness: reverse_rename_run has staged both entries of a plan and
\* committed none.
C17_AllStagedNoneCommitted ==
    /\ mode = "reverse"
    /\ pc = "commit"
    /\ idx = 1
    /\ Len(plan) = 2
    /\ \A j \in 1..2 : TempOf(j) \in DOMAIN files

-----------------------------------------------------------------------------
(* Where the files of a plan are during a run (checked under SpecApi).     *)

\* How far entry j has come: 0 not yet staged, 1 staged, 2 committed.
Rank(j) ==
    IF j > Len(temp_map) THEN 0
    ELSE IF TempOf(j) \in DOMAIN files THEN 1
    ELSE 2

\* The path that goes with the rank of entry j.
PathOf(j) ==
    CASE Rank(j) = 0 -> SourceOf(j)
      [] Rank(j) = 1 -> TempOf(j)
      [] Rank(j) = 2 -> TargetOf(j)

\* The entries of the plan whose file existed when the run began.
PlanFiles == {j \in 1..Len(plan) : SourceOf(j) \in DOMAIN pre.files}

\* Every file of the plan is at the path of its rank and nowhere else, and
\* the folder has as many files as when the run began.
ThreePaths ==
    /\ \A j \in PlanFiles :
          /\ PathOf(j) \in DOMAIN files
          /\ \A n \in DOMAIN files :
                files[n] = pre.files[SourceOf(j)] <=> n = PathOf(j)
    /\ Cardinality(DOMAIN files) = Cardinality(DOMAIN pre.files)

\* No entry goes back.
Forward == \A j \in 1..Len(plan) : Rank(j)' >= Rank(j)

\* No path a file is renamed to is an existing file that the plan leaves
\* alone.
NoForeignTarget ==
    \A j \in 1..Len(plan) :
       TargetOf(j) \in DOMAIN pre.files
          => \E k \in 1..Len(plan) : SourceOf(k) = TargetOf(j)

\* C18 as claimed: during a run on a plan with pairwise distinct targets
\* every file of the plan is at exactly one of its source path, its own
\* temporary path and its target path, no entry ever goes back, and the
\* number of files of the folder does not change.
C18_ThreePathsAnyPlan ==
    [][/\ DistinctTargets' => ThreePaths'
       /\ (DistinctTargets /\ plan' = plan) => Forward]_vars

\* C18 as amended: the same, for plans none of whose targets is an existing
\* file outside the plan.
C18_ThreePathsFreeTargets ==
    [][/\ (DistinctTargets' /\ NoForeignTarget') => ThreePaths'
       /\ (DistinctTargets /\ NoForeignTarget /\ plan' = plan) => Forward]_vars

\* C18 witness: rename_run on a swap plan has committed the first entry and
\* still holds the second under its temporary name.
C18_OneAtTargetOneAtTemp ==
    /\ mode = "run"
    /\ pc = "commit"
    /\ idx = 2
    /\ Len(plan) = 2
    /\ DistinctTargets
    /\ NoForeignTarget
    /\ PlanFiles = {1, 2}
    /\ TargetOf(1) = SourceOf(2)
    /\ Rank(1) = 2
    /\ Rank(2) = 1

-----------------------------------------------------------------------------
(* The record and the disk across invocations (checked under Spec).        *)

\* Every value path of the record of disk d is a file of d.
RecordFits(d) ==
    (d.backup_json.present /\ d.backup_json.parsable) =>
        \A k \in 1..Len(d.backup_json.data) :
           path_of(d.backup_json.data[k][2]) \in DOMAIN d.files

\* C19 as claimed: when the record described the disk before an invocation,
\* it describes the disk after it, whether the invocation succeeded, was
\* rejected or failed.
C19_RecordAlwaysFits ==
    (CliEnded /\ RecordFits(pre)) => RecordFits(Disk)

\* C19 as amended: when the record described the disk before an invocation,
\* it describes the disk after an invocation that succeeded or was rejected,
\* and a forward or reverse run that succeeded leaves a record a reverse run
\* can load; an invocation that failed at a rename leaves the record it
\* found, which need not describe the disk any more.
C19_RecordFitsUnlessFailed ==
    (CliEnded /\ RecordFits(pre)) =>
        /\ outcome.result # "RenameFailed" => RecordFits(Disk)
        /\ (outcome.result = "ok" /\ ~args.dry_run) =>
              backup_json.present /\ backup_json.parsable
        /\ outcome.result = "RenameFailed" => backup_json = pre.backup_json

\* C19 witness: a forward run of two files succeeded, the reverse run after
\* it succeeded too, and the record names the two files now in the folder.
C19_ForwardThenReverseFits ==
    /\ CliEnded
    /\ hist.kind = "run"
    /\ hist.ok
    /\ args.reverse_run
    /\ outcome.result = "ok"
    /\ Len(backup_json.data) = 2
    /\ {path_of(backup_json.data[k][2]) : k \in 1..2} = DOMAIN files
    /\ DOMAIN files # DOMAIN pre.files

====
